---- MODULE Spec2Model ----
(***************************************************************************)
(* ollama-mcp-agent: the tool-calling orchestrator (Agent.chat), the tool  *)
(* client's dispatch (MCPClientManager.callTool) and the cancellable       *)
(* round-trip runner (the onSubmit callback of runCLI), the raw-mode input  *)
(* handler (RawInputHandler.handleKey), the slash commands and the         *)
(* markdown export.                                                        *)
(*                                                                         *)
(* One action is one run of the event loop: a key event, a timer wake-up,  *)
(* or the completion of an awaited model / tool call together with the     *)
(* continuations (microtasks) it triggers.                                 *)
(***************************************************************************)
EXTENDS Integers, Sequences, FiniteSets, TLC

\* ------------------------------------------------------------------ bounds
MaxTurns == 2           \* chat turns submitted in one session
MaxBudget == 2          \* largest configured maxToolCalls
MaxCallsPerReply == 2   \* most tool invocations in one model reply
MaxBuf == 2             \* longest input buffer typed at the prompt
MaxHist == 2            \* most entries of the input history
MaxVaults == 2          \* vault switches in one session

Turns == 1..MaxTurns

\* ------------------------------------------------------- values of the model
SystemPrompt == <<"system prompt">>
NoResponse == <<"(No response)">>
UserInputs == {<<"hi">>}
Contents == {<<>>, <<"answer">>}

Servers == {"obsidian", "nzdpu"}
ServerTools(s) == IF s = "obsidian" THEN {"read"} ELSE {"lookup"}
HomeDir == "/home/user"
InitialVaultPath == <<"/vaults/a">>
CallNames == {"read", "bogus"}

RECURSIVE SeqsUpTo(_, _)
SeqsUpTo(S, n) ==
    IF n = 0 THEN {<<>>}
    ELSE LET shorter == SeqsUpTo(S, n - 1)
         IN  shorter \cup {Append(s, x) : s \in shorter, x \in S}

\* A reply of the model: the message content and the tool calls it requests.
Reply(content, toolCalls) == [content |-> content, toolCalls |-> toolCalls]

\* Replies to a call of the loop: a textual answer (possibly empty), or a
\* request for up to MaxCallsPerReply tool invocations.
LoopReplies ==
    {Reply(c, <<>>) : c \in Contents}
      \cup {Reply(<<>>, calls) : calls \in SeqsUpTo(CallNames, MaxCallsPerReply) \ {<<>>}}

\* Replies to the final call: the model may still ask for a tool.
FinalReplies == {Reply(c, calls) : c \in Contents, calls \in {<<>>, <<"read">>}}

\* The replies drawn while key and timer events interleave with the turn: an
\* answer, or (as the first reply of a turn) a request for one tool call.
RunnerReplies == {Reply(<<"answer">>, <<>>), Reply(<<>>, <<"read">>)}

VARIABLES
    maxToolCalls,         \* config.agent.maxToolCalls
    mcpTools,             \* MCPClientManager.tools: set of [serverName, name]
    mcpClients,           \* MCPClientManager.clients: connected server names
    conversationHistory,  \* Agent.conversationHistory
    chatHistory,          \* Agent.chatHistory (the export transcript)
    chat,                 \* the activations of Agent.chat, one per turn
    nTurns,               \* chat turns submitted so far
    waiting,              \* InputState.waiting
    cancelled,            \* the runner's `cancelled` flag of each turn
    aborted,              \* abortController.signal.aborted of each turn
    listeners,            \* turns whose escapeHandler is registered on stdin
    timers,               \* turns whose elapsed-time interval is active
    polls,                \* turns whose checkCancelled loop is still polling
    outcome,              \* how the runner's await of the race ended
    rendered,             \* turns whose answer was printed
    log,                  \* per turn: the calls issued and the messages appended
    hintLine,             \* the hint line of the prompt as last painted
    state,                \* RawInputHandler.state (InputState but `waiting`)
    exited,               \* onExit ran, or process.exit was called
    model,                \* OllamaClient._model
    session,              \* the objects the Session record refers to
    vault,                \* the activation of switchVault
    submitted,            \* the inputs the onSubmit callback was invoked with
    lastAgent,            \* the module variable `lastAgent` of each process
    exportFile,           \* what the `export` command wrote
    ticker                \* per turn: `elapsed` and `cancelHintShown` of onSubmit

vars == <<maxToolCalls, mcpTools, mcpClients, conversationHistory, chatHistory,
          chat, nTurns, waiting, cancelled, aborted, listeners, timers, polls,
          outcome, rendered, log, hintLine, state, exited, model, session, vault,
          submitted, lastAgent, exportFile, ticker>>

agentVars == <<conversationHistory, chatHistory, chat, log>>
runnerVars == <<waiting, cancelled, aborted, listeners, timers, polls, outcome, rendered,
                hintLine>>
configVars == <<maxToolCalls, mcpTools, mcpClients>>
handlerVars == <<state, exited, submitted>>
sessionVars == <<model, session, vault>>
exportVars == <<lastAgent, exportFile>>

\* ----------------------------------------------------------------- messages
Msg(role, content) == [role |-> role, content |-> content]
SystemMessage == Msg("system", SystemPrompt)
ChatTurn(role, content, toolsUsed) ==
    [role |-> role, content |-> content, toolsUsed |-> toolsUsed]

Ev(ev, name, k) == [ev |-> ev, name |-> name, k |-> k]

IdleChat ==
    [pc |-> "idle", toolCallCount |-> 0, toolsUsed |-> <<>>, toolCalls |-> <<>>,
     idx |-> 0, name |-> "", tools |-> {}, declared |-> FALSE, lookup |-> "none",
     content |-> <<>>, agent |-> 0]

\* -------------------------------------------------------------- tool client
\* MCPClientManager.getOllamaTools: the declarations of the registered tools.
getOllamaTools == {tl.name : tl \in mcpTools}

\* MCPClientManager.callTool up to its await: find the tool, then its client.
callToolLookup(toolName) ==
    IF ~\E tl \in mcpTools : tl.name = toolName THEN "notfound"
    ELSE LET tl == CHOOSE x \in mcpTools : x.name = toolName
         IN  IF tl.serverName \notin mcpClients THEN "noclient" ELSE "called"

\* What the awaited callTool can yield: a result text, or an error message.
callToolOutcomes(toolName, lookup) ==
    CASE lookup = "notfound" -> {[ok |-> FALSE, text |-> <<"Tool not found: ", toolName>>]}
      [] lookup = "noclient" -> {[ok |-> FALSE, text |-> <<"Server not connected: ", toolName>>]}
      [] OTHER -> {[ok |-> TRUE, text |-> <<"result of ", toolName>>],
                   [ok |-> FALSE, text |-> <<"tool failed: ", toolName>>]}

ResultTexts ==
    UNION {{<<"Tool not found: ", n>>, <<"Server not connected: ", n>>,
            <<"result of ", n>>, <<"tool failed: ", n>>} : n \in CallNames}

toolMessageBare(res) == Msg("tool", res.text)

\* The tool-role message Agent.chat appends for an outcome of callTool: the
\* result, or `Error: ${errorMsg}` from the catch block.
toolMessage(res) ==
    IF res.ok THEN Msg("tool", res.text) ELSE Msg("tool", <<"Error: ">> \o res.text)

\* ------------------------------------------------------------- orchestrator
issueModelCallInclusive(c) ==
    IF c.toolCallCount <= maxToolCalls
    THEN [c EXCEPT !.pc = "awaitModel", !.declared = (c.tools # {})]
    ELSE [c EXCEPT !.pc = "awaitFinal", !.declared = FALSE]

\* Agent.chat: `this.ollamaClient.chat(history, tools.length > 0 ? tools : undefined)`
\* while the budget lasts, `this.ollamaClient.chat(history)` once it is used up.
issueModelCall(c) ==
    IF c.toolCallCount < maxToolCalls
    THEN [c EXCEPT !.pc = "awaitModel", !.declared = (c.tools # {})]
    ELSE [c EXCEPT !.pc = "awaitFinal", !.declared = FALSE]

\* The log entry of the call issueModelCall issues: a call of the loop
\* ("model") or the final call ("final"), with or without tool declarations.
modelCallEvent(c) ==
    Ev(IF c.pc = "awaitFinal" THEN "final" ELSE "model",
       IF c.declared THEN "tools" ELSE "notools", 0)

toolCallAtReversed(calls, i) == calls[Len(calls) + 1 - i]

\* The tool call the i-th iteration of `for (const toolCall of response.toolCalls)`
\* takes: the array is walked in the order the model returned it.
toolCallAt(calls, i) == calls[i]

\* One iteration of `for (const toolCall of response.toolCalls)` up to its await.
dispatchTool(c, i) ==
    LET name == toolCallAt(c.toolCalls, i)
    IN  [c EXCEPT !.pc = "awaitTool",
                  !.idx = i,
                  !.name = name,
                  !.toolCallCount = @ + 1,
                  !.toolsUsed = Append(@, name),
                  !.lookup = IF c.agent = session.agent
                             THEN callToolLookup(name)
                             ELSE "notfound"]

\* Whether the for loop has a further tool call after the i-th.
hasNextToolCall(c, i) == i < Len(c.toolCalls)

clearedHistoryEmpty == <<>>

\* Agent.clearHistory (and Agent.initialize): the history holding the system
\* prompt alone.
clearedHistory == <<SystemMessage>>

clearedChatHistoryKept == chatHistory

\* Agent.clearHistory: `this.chatHistory = []`
clearedChatHistory == <<>>

\* `toolsUsed.length > 0 ? [...toolsUsed] : undefined` of the transcript entry.
transcriptTools(toolsUsed) == toolsUsed

finalContentRaw(content) == content

\* `finalResponse.message.content || "(No response)"`
finalContent(content) == IF content = <<>> THEN NoResponse ELSE content

\* ------------------------------------------------------------------- texts
\* A text is a tuple of pieces; a piece typed at the prompt is one character.
RECURSIVE trimStart(_)
trimStart(text) ==
    IF text # <<>> /\ Head(text) = " " THEN trimStart(Tail(text)) ELSE text

RECURSIVE trimEnd(_)
trimEnd(text) ==
    IF text # <<>> /\ text[Len(text)] = " "
    THEN trimEnd(SubSeq(text, 1, Len(text) - 1))
    ELSE text

\* String.prototype.trim
trim(text) == trimEnd(trimStart(text))

\* `text.split(/\s+/)`: the words between runs of white space.
RECURSIVE splitWords(_)
splitWords(text) ==
    IF \A i \in DOMAIN text : text[i] # " " THEN <<text>>
    ELSE LET i == CHOOSE k \in DOMAIN text :
                      text[k] = " " /\ \A j \in 1..(k - 1) : text[j] # " "
         IN  <<SubSeq(text, 1, i - 1)>> \o splitWords(trimStart(SubSeq(text, i, Len(text))))

\* `words.join(" ")`
RECURSIVE joinWords(_)
joinWords(words) ==
    IF words = <<>> THEN <<>>
    ELSE IF Len(words) = 1 THEN words[1]
    ELSE words[1] \o <<" ">> \o joinWords(Tail(words))

\* String.prototype.toLowerCase on the pieces that carry capitals.
toLowerCase(text) ==
    [i \in DOMAIN text |->
        CASE text[i] = "Qwen3" -> "qwen3"
          [] text[i] = "Clear" -> "clear"
          [] OTHER -> text[i]]

\* String.prototype.startsWith
startsWith(text, prefix) ==
    Len(prefix) <= Len(text) /\ SubSeq(text, 1, Len(prefix)) = prefix

\* ------------------------------------------------------------- model client
DefaultModel == <<"qwen2.5", ":7b-instruct">>
ModelNames == {DefaultModel, <<"Qwen3", ":8b">>}

THINKING_CAPABLE_PREFIXES ==
    {<<"qwen3">>, <<"deepseek-r1">>, <<"magistral">>, <<"qwq">>, <<"cogito">>}

isThinkingCapable(modelName) ==
    \E prefix \in THINKING_CAPABLE_PREFIXES : startsWith(toLowerCase(modelName), prefix)

\* ------------------------------------------------------------ line renderer
\* The hint line painted by renderPromptInitial, renderPrompt and
\* clearPanelAndRestorePrompt ("check" and "cross" stand for the marks U+2713
\* and U+2717).
promptHints(s) ==
    <<"? shortcuts", "/ commands">>
      \o (IF s.modelSupportsThinking
          THEN (IF s.thinkingEnabled
                THEN <<"check", " Thinking visible", " (tab)">>
                ELSE <<"cross Thinking hidden", " (tab)">>)
          ELSE <<>>)

\* The hint line the Tab branch of handleKey paints.
tabHints(s) ==
    <<"? shortcuts", "/ commands">>
      \o (IF s.thinkingEnabled
          THEN <<"Thinking visible", " (tab)">>
          ELSE <<"Thinking hidden", " (tab)">>)

\* ------------------------------------------------------------ input handler
\* A `data` event of stdin: the string received and the code of its first
\* character.
Key(code, str) == [code |-> code, str |-> str]

CtrlCKey == Key(3, "^C")
TabKey == Key(9, "TAB")
EnterKey == Key(13, "CR")
BackspaceKey == Key(127, "DEL")
EscKey == Key(27, "ESC")
UpKey == Key(27, "ESC[A")
DownKey == Key(27, "ESC[B")
RightKey == Key(27, "ESC[C")

Printable == {Key(97, "a"), Key(47, "/"), Key(63, "?"), Key(32, " ")}
Keys == Printable \cup {CtrlCKey, TabKey, EnterKey, BackspaceKey, EscKey, UpKey, DownKey,
                        RightKey}

\* The state the constructor of RawInputHandler builds.
newInputState(modelSupportsThinking) ==
    [buffer |-> <<>>, cursorPos |-> 0, history |-> <<>>, historyIndex |-> -1,
     thinkingEnabled |-> TRUE, modelSupportsThinking |-> modelSupportsThinking,
     panelVisible |-> "none"]

updateModelFlagOnly(s, modelName) ==
    [s EXCEPT !.modelSupportsThinking = isThinkingCapable(modelName)]

\* RawInputHandler.updateModel
updateModel(s, modelName) ==
    LET capable == isThinkingCapable(modelName)
    IN  [s EXCEPT !.modelSupportsThinking = capable,
                  !.thinkingEnabled = IF capable THEN @ ELSE FALSE]

\* One run of handleKey works on h: the InputState, the hint line, the text
\* handed to onSubmit (if any) and whether onExit was called.
clearPanelAndRestorePrompt(h) == [h EXCEPT !.hint = promptHints(h.s)]

\* `clearPanelAndRestorePrompt(this.state, n); this.state.panelVisible = null`
dismissPanel(h) == [clearPanelAndRestorePrompt(h) EXCEPT !.s.panelVisible = "none"]

clearBufferCursorOnly(h) == [h EXCEPT !.s.cursorPos = 0]

\* `this.state.buffer = ""; this.state.cursorPos = 0`
clearBuffer(h) == [h EXCEPT !.s.buffer = <<>>, !.s.cursorPos = 0]

\* `buffer = buffer.slice(0, -1); cursorPos = buffer.length`
eraseLast(h) ==
    LET b == SubSeq(h.s.buffer, 1, Len(h.s.buffer) - 1)
    IN  [h EXCEPT !.s.buffer = b, !.s.cursorPos = Len(b)]

appendKeyInFront(h, key) ==
    LET b == <<key.str>> \o h.s.buffer
    IN  [h EXCEPT !.s.buffer = b, !.s.cursorPos = Len(b)]

\* `buffer += key; cursorPos = buffer.length`
appendKey(h, key) ==
    LET b == Append(h.s.buffer, key.str)
    IN  [h EXCEPT !.s.buffer = b, !.s.cursorPos = Len(b)]

\* The Tab branch: toggle thinkingEnabled and repaint the hint line.
toggleThinking(h) ==
    LET s == [h.s EXCEPT !.thinkingEnabled = ~@]
    IN  [h EXCEPT !.s = s, !.hint = tabHints(s)]

submissionAlways(input) == <<input>>

\* `if (input) { await this.onSubmit(input) }`: the calls of onSubmit.
submission(input) == IF input # <<>> THEN <<input>> ELSE <<>>

enterKeyUntrimmed(h) ==
    LET input == h.s.buffer
        pushed == IF input # <<>> THEN Append(h.s.history, input) ELSE h.s.history
        s == [h.s EXCEPT !.history = pushed,
                         !.historyIndex = IF input # <<>> THEN Len(pushed) ELSE @,
                         !.buffer = <<>>,
                         !.cursorPos = 0]
    IN  [h EXCEPT !.s = s,
                  !.submit = IF input # <<>> THEN <<input>> ELSE <<>>,
                  !.hint = promptHints(s)]

\* The Enter branch up to `await this.onSubmit(input)`; without a submission
\* renderPromptInitial follows at once.
enterKey(h) ==
    LET input == trim(h.s.buffer)
        pushed == IF input # <<>> THEN Append(h.s.history, input) ELSE h.s.history
        s == [h.s EXCEPT !.history = pushed,
                         !.historyIndex = IF input # <<>> THEN Len(pushed) ELSE @,
                         !.buffer = <<>>,
                         !.cursorPos = 0]
    IN  [h EXCEPT !.s = s,
                  !.submit = submission(input),
                  !.hint = promptHints(s)]

\* `this.state.history[i] || ""` (i counts from 0)
historyEntry(s, i) ==
    IF i \in 0..(Len(s.history) - 1) THEN s.history[i + 1] ELSE <<>>

upArrowPastFloor(h) ==
    IF h.s.historyIndex >= 0
    THEN LET i == h.s.historyIndex - 1
             b == historyEntry(h.s, i)
         IN  [h EXCEPT !.s.historyIndex = i, !.s.buffer = b, !.s.cursorPos = Len(b)]
    ELSE h

\* The Up-arrow branch.
upArrow(h) ==
    IF h.s.historyIndex > 0
    THEN LET i == h.s.historyIndex - 1
             b == historyEntry(h.s, i)
         IN  [h EXCEPT !.s.historyIndex = i, !.s.buffer = b, !.s.cursorPos = Len(b)]
    ELSE h

\* The Down-arrow branch.
downArrow(h) ==
    LET i == IF h.s.historyIndex < Len(h.s.history) - 1
             THEN h.s.historyIndex + 1
             ELSE Len(h.s.history)
        b == IF h.s.historyIndex < Len(h.s.history) - 1 THEN historyEntry(h.s, i) ELSE <<>>
    IN  [h EXCEPT !.s.historyIndex = i, !.s.buffer = b, !.s.cursorPos = Len(b)]

opensShortcutsAnyBuffer(s, key) == key.str = "?"

\* `key === "?" && this.state.buffer.length === 0`
opensShortcuts(s, key) == key.str = "?" /\ Len(s.buffer) = 0

\* The `?` branch: the key is not added to the buffer.
openShortcuts(h) == [h EXCEPT !.s.panelVisible = "shortcuts"]

openCommandsCursorHome(h) ==
    [h EXCEPT !.s.buffer = <<"/">>, !.s.cursorPos = 0, !.s.panelVisible = "commands"]

\* The `/` branch: the slash goes into the buffer and the panel opens.
openCommands(h) ==
    [h EXCEPT !.s.buffer = <<"/">>, !.s.cursorPos = 1, !.s.panelVisible = "commands"]

\* `code >= 32 && code < 127`
isPrintable(key) == key.code >= 32 /\ key.code < 127

\* `code === 127 || code === 8`
isBackspace(key) == key.code = 127 \/ key.code = 8

togglesThinkingAnyModel(s, key) == key.code = 9

\* `code === 9 && this.state.modelSupportsThinking`
togglesThinking(s, key) == key.code = 9 /\ s.modelSupportsThinking

\* handleKey below the panel handling: Tab, Enter, Backspace, arrows, `?`,
\* `/`, and the regular characters.
promptKey(h, key) ==
    IF togglesThinking(h.s, key) THEN toggleThinking(h)
    ELSE IF key.code = 13 THEN enterKey(h)
    ELSE IF isBackspace(key) THEN (IF Len(h.s.buffer) > 0 THEN eraseLast(h) ELSE h)
    ELSE IF key.str = "ESC[A" THEN upArrow(h)
    ELSE IF key.str = "ESC[B" THEN downArrow(h)
    ELSE IF opensShortcuts(h.s, key) THEN openShortcuts(h)
    ELSE IF key.str = "/" /\ Len(h.s.buffer) = 0 THEN openCommands(h)
    ELSE IF isPrintable(key) THEN appendKey(h, key)
    ELSE h

\* handleKey while the commands panel is visible.
commandsPanelKey(h, key) ==
    IF key.code = 27 THEN clearBuffer(dismissPanel(h))
    ELSE IF isBackspace(key)
         THEN (IF Len(h.s.buffer) <= 1 THEN clearBuffer(dismissPanel(h)) ELSE eraseLast(h))
    ELSE IF key.code = 13 THEN promptKey(dismissPanel(h), key)
    ELSE IF isPrintable(key) THEN appendKey(h, key)
    ELSE h

ignoredWhileWaitingButText(w, key) == w /\ ~isPrintable(key)

\* `if (this.state.waiting) return`: every key is ignored while waiting.
ignoredWhileWaiting(w, key) == w

handleKeyGuardFirst(s, hint, w, key) ==
    LET h == [s |-> s, hint |-> hint, submit |-> <<>>, exit |-> FALSE]
    IN  IF ignoredWhileWaiting(w, key) THEN h
        ELSE IF key.code = 3 THEN [h EXCEPT !.exit = TRUE]
        ELSE IF s.panelVisible = "shortcuts"
             THEN (IF key.code = 127 \/ key.code = 8 \/ key.code = 27
                   THEN dismissPanel(h)
                   ELSE promptKey(dismissPanel(h), key))
        ELSE IF s.panelVisible = "commands" THEN commandsPanelKey(h, key)
        ELSE promptKey(h, key)

\* RawInputHandler.handleKey up to its await: Ctrl+C, the waiting guard, the
\* shortcuts panel, the commands panel, then the prompt.
handleKey(s, hint, w, key) ==
    LET h == [s |-> s, hint |-> hint, submit |-> <<>>, exit |-> FALSE]
    IN  IF key.code = 3 THEN [h EXCEPT !.exit = TRUE]
        ELSE IF ignoredWhileWaiting(w, key) THEN h
        ELSE IF s.panelVisible = "shortcuts"
             THEN (IF key.code = 127 \/ key.code = 8 \/ key.code = 27
                   THEN dismissPanel(h)
                   ELSE promptKey(dismissPanel(h), key))
        ELSE IF s.panelVisible = "commands" THEN commandsPanelKey(h, key)
        ELSE promptKey(h, key)

\* ------------------------------------------------------------------- export
\* A document is a sequence of lines, a line a text.
Digits == <<"0", "1", "2", "3", "4", "5", "6", "7", "8", "9">>

\* The decimal numeral a template literal puts in for a number.
RECURSIVE numeral(_)
numeral(n) ==
    IF n < 10 THEN <<Digits[n + 1]>>
    ELSE numeral(n \div 10) \o <<Digits[(n % 10) + 1]>>

\* `names.join(sep)`
RECURSIVE joinNames(_, _)
joinNames(names, sep) ==
    IF names = <<>> THEN <<>>
    ELSE IF Len(names) = 1 THEN <<names[1]>>
    ELSE <<names[1], sep>> \o joinNames(Tail(names), sep)

exportTurnAnnotated(turn) ==
    IF turn.role = "user"
    THEN <<<<"## User">>, <<>>, turn.content, <<>>>>
    ELSE <<<<"## Assistant">>>>
           \o <<<<>>, <<"*Tools used: ">> \o joinNames(turn.toolsUsed, ", ") \o <<"*">>>>
           \o <<<<>>, turn.content, <<>>, <<"---">>, <<>>>>

\* The lines one iteration of `for (const turn of this.chatHistory)` pushes.
exportTurn(turn) ==
    IF turn.role = "user"
    THEN <<<<"## User">>, <<>>, turn.content, <<>>>>
    ELSE <<<<"## Assistant">>>>
           \o (IF Len(turn.toolsUsed) > 0
               THEN <<<<>>, <<"*Tools used: ">> \o joinNames(turn.toolsUsed, ", ") \o <<"*">>>>
               ELSE <<>>)
           \o <<<<>>, turn.content, <<>>, <<"---">>, <<>>>>

RECURSIVE exportTurns(_)
exportTurns(history) ==
    IF history = <<>> THEN <<>>
    ELSE exportTurn(Head(history)) \o exportTurns(Tail(history))

\* Agent.exportToMarkdown: the lines that are joined by "\n".
exportToMarkdown(history, modelName) ==
    <<<<"# Vault Agent Chat Export">>,
      <<>>,
      <<"**Date**: ", "sessionStart">>,
      <<"**Model**: ">> \o modelName,
      <<"**Turns**: ">> \o numeral(Len(SelectSeq(history, LAMBDA t : t.role = "user"))),
      <<>>,
      <<"---">>,
      <<>>>>
      \o exportTurns(history)

\* `let lastAgent: Agent | null = null`
NoAgent == 0

\* exportChat up to `await fs.writeFile(filepath, markdown)`: the documents
\* handed to writeFile, given the process's lastAgent and the transcript and
\* model name that agent holds.
exportChat(agent, history, modelName) ==
    IF agent = NoAgent THEN <<>>
    ELSE IF Len(history) = 0 THEN <<>>
    ELSE <<exportToMarkdown(history, modelName)>>

\* ------------------------------------------------------------------- runner
\* `elapsed >= 60` of the interval callback: the cancel hint is due.
HintAfter == 60

\* The values Math.floor((Date.now() - startTime) / 1000) takes at the wake-ups
\* of the interval that are told apart.
ElapsedSeconds == {1, HintAfter - 1, HintAfter, HintAfter + 1}

\* `let elapsed = 0`, `let cancelHintShown = false`
newTicker == [elapsed |-> 0, cancelHintShown |-> FALSE]

\* The callback of setInterval: elapsed is recomputed, and the cancel hint is
\* shown from the first wake-up at which a minute has passed (in both display
\* modes).
ticked(k, elapsed) ==
    [elapsed |-> elapsed,
     cancelHintShown |-> k.cancelHintShown \/ elapsed >= HintAfter]

isLoneEscByCode(key) == key.code = 27

\* `key === "\x1b"` of the escapeHandler: the data event is the ESC byte alone.
isLoneEsc(key) == key.str = "ESC"

\* onSubmit after the race was won by the chat promise: cleanup, then render;
\* handleKey, resumed, paints the next prompt (renderPromptInitial).
runnerResponse(t) ==
    /\ timers' = timers \ {t}
    /\ listeners' = listeners \ {t}
    /\ waiting' = FALSE
    /\ outcome' = [outcome EXCEPT ![t] = "response"]
    /\ rendered' = rendered \cup {t}
    /\ hintLine' = promptHints(state)
    /\ UNCHANGED <<cancelled, aborted, polls>>

runnerCatchStillWaiting(t) ==
    /\ outcome' = [outcome EXCEPT ![t] = "error"]
    /\ hintLine' = promptHints(state)
    /\ UNCHANGED <<waiting, timers, listeners, cancelled, aborted, polls, rendered>>

\* onSubmit's catch block: the chat promise rejected.
runnerCatch(t) ==
    /\ waiting' = FALSE
    /\ outcome' = [outcome EXCEPT ![t] = "error"]
    /\ hintLine' = promptHints(state)
    /\ UNCHANGED <<timers, listeners, cancelled, aborted, polls, rendered>>

runnerCancelledStillWaiting(t) ==
    /\ timers' = timers \ {t}
    /\ listeners' = listeners \ {t}
    /\ outcome' = [outcome EXCEPT ![t] = "cancelled"]
    /\ hintLine' = promptHints(state)
    /\ UNCHANGED waiting

\* onSubmit after the race was won by checkCancelled: cleanup, then the
\* `cancelled after` message; handleKey, resumed, paints the next prompt.
runnerCancelled(t) ==
    /\ timers' = timers \ {t}
    /\ listeners' = listeners \ {t}
    /\ waiting' = FALSE
    /\ outcome' = [outcome EXCEPT ![t] = "cancelled"]
    /\ hintLine' = promptHints(state)

\* The chat promise of turn t settled: the race takes it unless already decided.
chatSettled(t, fulfilled) ==
    IF outcome[t] # "pending" THEN UNCHANGED runnerVars
    ELSE IF fulfilled THEN runnerResponse(t) ELSE runnerCatch(t)

\* ------------------------------------------------------------------ actions
\* `this.conversationHistory.push(...)`, `this.chatHistory.push(...)` of the
\* Agent turn t runs on: conversationHistory and chatHistory are the arrays of
\* the session's agent, and a turn of an agent that switchVault has replaced
\* pushes to the arrays of its own agent, which nothing reads any more.
pushed(t, history, entry) ==
    IF chat[t].agent = session.agent THEN Append(history, entry) ELSE history

\* The chat branch of onSubmit up to `await Promise.race(...)`, including
\* Agent.chat up to its first await.
onSubmitChat(input) ==
    /\ ~waiting
    /\ nTurns + 1 \in Turns
    /\ LET t == nTurns + 1
           c == issueModelCall([IdleChat EXCEPT !.tools = getOllamaTools,
                                                !.agent = session.agent])
       IN  /\ nTurns' = t
           /\ waiting' = TRUE
           /\ cancelled' = [cancelled EXCEPT ![t] = FALSE]
           /\ aborted' = [aborted EXCEPT ![t] = FALSE]
           /\ listeners' = listeners \cup {t}
           /\ timers' = timers \cup {t}
           /\ polls' = polls \cup {t}
           /\ outcome' = [outcome EXCEPT ![t] = "pending"]
           /\ chatHistory' = Append(chatHistory, ChatTurn("user", input, <<>>))
           /\ conversationHistory' = Append(conversationHistory, Msg("user", input))
           /\ chat' = [chat EXCEPT ![t] = c]
           /\ log' = [log EXCEPT ![t] = <<modelCallEvent(c)>>]
           /\ ticker' = [ticker EXCEPT ![t] = newTicker]
    /\ UNCHANGED <<configVars, rendered, hintLine, sessionVars, exportVars>>

\* Enter with a chat input while the handler is not waiting.
SubmitChat(input) ==
    /\ onSubmitChat(input)
    /\ submitted' = Append(submitted, input)
    /\ UNCHANGED <<state, exited>>

\* The awaited model call of the loop returns `reply`.
ModelReturn(t, reply) ==
    /\ chat[t].pc = "awaitModel"
    /\ conversationHistory' = pushed(t, conversationHistory, Msg("assistant", reply.content))
    /\ LET replyEv == Ev("reply", IF chat[t].declared THEN "tools" ELSE "notools",
                         Len(reply.toolCalls))
       IN  IF reply.toolCalls = <<>>
           THEN /\ chatHistory' = pushed(t, chatHistory,
                       ChatTurn("assistant", reply.content, transcriptTools(chat[t].toolsUsed)))
                /\ chat' = [chat EXCEPT ![t].pc = "done", ![t].content = reply.content]
                /\ log' = [log EXCEPT ![t] = @ \o <<replyEv, Ev("return", "", 0)>>]
                /\ chatSettled(t, TRUE)
           ELSE LET c == dispatchTool([chat[t] EXCEPT !.toolCalls = reply.toolCalls], 1)
                IN  /\ chat' = [chat EXCEPT ![t] = c]
                    /\ log' = [log EXCEPT ![t] =
                                 @ \o <<replyEv, Ev("dispatch", c.name, c.idx)>>]
                    /\ UNCHANGED <<chatHistory, runnerVars>>
    /\ UNCHANGED <<configVars, nTurns, handlerVars, sessionVars, exportVars, ticker>>

\* The awaited callTool settles: its result, or the error it threw, becomes a
\* tool message; then the next tool call of the reply, or the loop head.
ToolReturn(t, res) ==
    /\ chat[t].pc = "awaitTool"
    /\ res \in callToolOutcomes(chat[t].name, chat[t].lookup)
    /\ conversationHistory' = pushed(t, conversationHistory, toolMessage(res))
    /\ LET i == chat[t].idx
           msgEv == Ev(IF res.ok THEN "toolmsg" ELSE "toolerr", chat[t].name, i)
       IN  IF hasNextToolCall(chat[t], i)
           THEN LET c == dispatchTool(chat[t], i + 1)
                IN  /\ chat' = [chat EXCEPT ![t] = c]
                    /\ log' = [log EXCEPT ![t] =
                                 @ \o <<msgEv, Ev("dispatch", c.name, c.idx)>>]
           ELSE LET c == issueModelCall(chat[t])
                IN  /\ chat' = [chat EXCEPT ![t] = c]
                    /\ log' = [log EXCEPT ![t] = @ \o <<msgEv, modelCallEvent(c)>>]
    /\ UNCHANGED <<configVars, nTurns, chatHistory, runnerVars, handlerVars, sessionVars, exportVars, ticker>>

\* The awaited final model call (no tool declarations) returns `reply`.
FinalReturn(t, reply) ==
    /\ chat[t].pc = "awaitFinal"
    /\ conversationHistory' = pushed(t, conversationHistory, Msg("assistant", reply.content))
    /\ chatHistory' = pushed(t, chatHistory,
           ChatTurn("assistant", finalContent(reply.content), transcriptTools(chat[t].toolsUsed)))
    /\ chat' = [chat EXCEPT ![t].pc = "done", ![t].content = finalContent(reply.content)]
    /\ log' = [log EXCEPT ![t] = @ \o <<Ev("finalreply", "notools", Len(reply.toolCalls)),
                                         Ev("return", "", 0)>>]
    /\ chatSettled(t, TRUE)
    /\ UNCHANGED <<configVars, nTurns, handlerVars, sessionVars, exportVars, ticker>>

\* An awaited model call rejects: Agent.chat has no handler, so it rejects too.
ModelThrow(t) ==
    /\ chat[t].pc \in {"awaitModel", "awaitFinal"}
    /\ chat' = [chat EXCEPT ![t].pc = "failed"]
    /\ log' = [log EXCEPT ![t] = Append(@, Ev("throw", "", 0))]
    /\ chatSettled(t, FALSE)
    /\ UNCHANGED <<configVars, nTurns, conversationHistory, chatHistory, handlerVars,
                   sessionVars, exportVars, ticker>>

\* The escapeHandler of every turn that has one registered, run on a lone ESC.
escapeHandlers ==
    /\ cancelled' = [t \in Turns |-> cancelled[t] \/ t \in listeners]
    /\ aborted' = [t \in Turns |-> aborted[t] \/ t \in listeners]
    /\ timers' = timers \ listeners

\* A lone ESC byte arrives on stdin: every registered escapeHandler runs.
\* (handleKey itself returns at the waiting guard, or handles ESC at the prompt.)
KeyEscape ==
    /\ listeners # {}
    /\ escapeHandlers
    /\ UNCHANGED <<configVars, nTurns, agentVars, waiting, listeners, polls, outcome, rendered,
                   hintLine, handlerVars, sessionVars, exportVars, ticker>>

\* The interval of turn t fires after `elapsed` seconds (the clock does not run
\* backwards); clearInterval has not been called for it.
Tick(t, elapsed) ==
    /\ t \in timers
    /\ elapsed >= ticker[t].elapsed
    /\ ticker' = [ticker EXCEPT ![t] = ticked(@, elapsed)]
    /\ UNCHANGED <<configVars, nTurns, agentVars, runnerVars, handlerVars, sessionVars,
                   exportVars>>

\* The 100 ms timer of checkCancelled fires and finds the flag set: the loop
\* ends and its branch of the race resolves. (A wake-up that finds the flag
\* clear re-arms the timer and changes nothing.)
PollWake(t) ==
    /\ t \in polls
    /\ cancelled[t]
    /\ polls' = polls \ {t}
    /\ IF outcome[t] = "pending"
       THEN runnerCancelled(t)
       ELSE UNCHANGED <<timers, listeners, waiting, outcome, hintLine>>
    /\ UNCHANGED <<configVars, nTurns, agentVars, cancelled, aborted, rendered, handlerVars,
                   sessionVars, exportVars, ticker>>

\* The /clear command (handled when the handler is not waiting): Agent.clearHistory.
ClearHistory ==
    /\ ~waiting
    /\ conversationHistory' = clearedHistory
    /\ chatHistory' = clearedChatHistory
    /\ UNCHANGED <<configVars, nTurns, chat, log, runnerVars, handlerVars, sessionVars, exportVars, ticker>>

\* The `export` command of the program, run as a process of its own: the
\* module is loaded, commander calls exportChat (and never runCLI), and the
\* process ends.
ExportCommand ==
    /\ ~exportFile.ran
    /\ exportFile' = [ran |-> TRUE,
                      written |-> exportChat(lastAgent.export, chatHistory, model)]
    /\ UNCHANGED <<configVars, nTurns, agentVars, runnerVars, handlerVars, sessionVars,
                   lastAgent, ticker>>

\* ---------------------------------------------------------- slash commands
\* `path.resolve(newPath.replace(/^~/, process.env.HOME || ""))` for the
\* absolute and home-relative paths of the model.
resolvedPath(newPath) ==
    IF newPath # <<>> /\ Head(newPath) = "~" THEN <<HomeDir>> \o Tail(newPath) ELSE newPath

\* extractVaultPath: the last argument of the obsidian server, if configured.
extractVaultPath(mcpServers) ==
    IF "obsidian" \in DOMAIN mcpServers THEN mcpServers["obsidian"] ELSE <<>>

\* createMCPConfigWithPath: the server configurations with the last argument
\* of the obsidian server replaced by newPath.
createMCPConfigWithPath(originalServers, newPath) ==
    [s \in DOMAIN originalServers |->
        IF s = "obsidian" THEN newPath ELSE originalServers[s]]

\* config.mcpServers as loaded: per server the path it is started with.
loadedServers == [s \in Servers |-> IF s = "obsidian" THEN InitialVaultPath ELSE <<>>]

isDirectoryOrFile(res) == res \in {"directory", "file"}

\* `stats.isDirectory()` of the awaited fs.stat, which throws for a missing path.
isDirectory(res) == res = "directory"

stillToConnectNoneAfterFailure(pending, s, ok) == IF ok THEN pending \ {s} ELSE {}

\* MCPClientManager.connect: the try/catch is inside the loop, so the servers
\* after s are connected whether or not connectServer of s threw.
stillToConnect(pending, s, ok) == pending \ {s}

closedUnlessThrown(m, ok) == IF ok THEN [clients |-> {}, tools |-> {}] ELSE m

\* MCPClientManager.disconnect after its loop: `this.clients.clear()`,
\* `this.tools = []`, whether or not the last close threw.
closed(m, ok) == [clients |-> {}, tools |-> {}]

\* The runner's variables but the hint line.
runnerFlags == <<waiting, cancelled, aborted, listeners, timers, polls, outcome, rendered>>

\* switchVault is not running.
IdleVault == [pc |-> "idle", path |-> <<>>, pending |-> {}, clients |-> {}, tools |-> {}]

VaultPaths == {<<"~", "/vault-b">>}

\* The command lines entered as a whole.
CommandLines ==
    {<<"/", "clear">>, <<"/", "help">>, <<"/", "model">>}
      \cup {<<"/", "model", " ">> \o name : name \in ModelNames}
      \cup {<<"/", "vault", " ">> \o path : path \in VaultPaths}

\* handleCommand, called with the InputState s the Enter branch left: quit,
\* clear, model with a name, vault with a path (switchVault up to its first
\* await); every other command only prints. When it returns handleKey paints
\* the next prompt.
handleCommand(s, input) ==
    LET words == splitWords(Tail(input))
        cmd == toLowerCase(words[1])
        args == Tail(words)
    IN  CASE cmd \in {<<"quit">>, <<"exit">>, <<"bye">>} ->
               /\ state' = s
               /\ exited' = TRUE
               /\ UNCHANGED <<configVars, agentVars, nTurns, runnerVars, sessionVars, exportVars, ticker>>
          [] cmd = <<"clear">> ->
               /\ state' = s
               /\ conversationHistory' = clearedHistory
               /\ chatHistory' = clearedChatHistory
               /\ hintLine' = promptHints(s)
               /\ UNCHANGED <<configVars, chat, log, nTurns, runnerFlags, exited, sessionVars, exportVars, ticker>>
          [] cmd = <<"model">> /\ args # <<>> ->
               LET newModel == joinWords(args)
                   updated == updateModel(s, newModel)
               IN  /\ model' = newModel
                   /\ state' = updated
                   /\ hintLine' = promptHints(updated)
                   /\ UNCHANGED <<configVars, agentVars, nTurns, runnerFlags, exited, session,
                                  vault, exportVars, ticker>>
          [] cmd \in {<<"vault">>, <<"cd">>} /\ args # <<>> ->
               /\ vault.pc = "idle"
               /\ session.mcpClient <= MaxVaults
               /\ state' = s
               /\ vault' = [IdleVault EXCEPT !.pc = "stat", !.path = resolvedPath(joinWords(args))]
               /\ UNCHANGED <<configVars, agentVars, nTurns, runnerVars, exited, model, session,
                              exportVars, ticker>>
          [] OTHER ->
               /\ state' = s
               /\ hintLine' = promptHints(s)
               /\ UNCHANGED <<configVars, agentVars, nTurns, runnerFlags, exited, sessionVars, exportVars, ticker>>

\* The onSubmit callback of runCLI, called with the InputState s the Enter
\* branch left.
onSubmit(s, input) ==
    /\ submitted' = Append(submitted, input)
    /\ IF startsWith(input, <<"/">>)
       THEN handleCommand(s, input)
       ELSE /\ state' = s
            /\ exited' = exited
            /\ onSubmitChat(input)

\* A `data` event of stdin with `key`: handleKey runs, then the escapeHandler
\* of every turn that has one registered. The prompt takes at most MaxBuf
\* typed characters and the history at most MaxHist entries.
KeyEvent(key) ==
    /\ ~exited
    /\ LET h == handleKey(state, hintLine, waiting, key)
       IN  /\ Len(h.s.buffer) > Len(state.buffer) => Len(h.s.buffer) <= MaxBuf
           /\ Len(h.s.history) <= MaxHist
           /\ IF h.submit # <<>>
              THEN onSubmit(h.s, h.submit[1])
              ELSE /\ state' = h.s
                   /\ hintLine' = h.hint
                   /\ exited' = h.exit
                   /\ submitted' = submitted
                   /\ IF isLoneEsc(key)
                      THEN escapeHandlers
                      ELSE UNCHANGED <<cancelled, aborted, timers>>
                   /\ UNCHANGED <<configVars, agentVars, nTurns, waiting, listeners, polls,
                                  outcome, rendered, sessionVars, exportVars, ticker>>

\* A command line typed at the empty prompt and submitted with Enter (its
\* keystrokes taken together: the slash opened the commands panel).
SubmitLine(line) ==
    /\ ~exited
    /\ ~waiting
    /\ state.buffer = <<>>
    /\ state.panelVisible = "none"
    /\ LET typed == [state EXCEPT !.buffer = line, !.cursorPos = Len(line),
                                  !.panelVisible = "commands"]
           h == handleKey(typed, hintLine, waiting, EnterKey)
       IN  /\ Len(h.s.history) <= MaxHist
           /\ onSubmit(h.s, h.submit[1])

serverDoneSameAgent(v) ==
    IF v.pending # {}
    THEN /\ vault' = [v EXCEPT !.pc = "connect"]
         /\ UNCHANGED <<mcpTools, mcpClients, conversationHistory, chatHistory, session,
                        hintLine, lastAgent>>
    ELSE /\ vault' = IdleVault
         /\ mcpClients' = v.clients
         /\ mcpTools' = v.tools
         /\ session' = [session EXCEPT !.mcpClient = @ + 1,
                                        !.currentVaultPath = v.path,
                                        !.mcpServers = createMCPConfigWithPath(@, v.path)]
         /\ lastAgent' = lastAgent
         /\ conversationHistory' = clearedHistory
         /\ chatHistory' = <<>>
         /\ hintLine' = promptHints(state)

\* switchVault once a server of the new tool client is dealt with: the next
\* server, or the new client and a new Agent are put into the session and
\* handleKey paints the next prompt.
serverDone(v) ==
    IF v.pending # {}
    THEN /\ vault' = [v EXCEPT !.pc = "connect"]
         /\ UNCHANGED <<mcpTools, mcpClients, conversationHistory, chatHistory, session,
                        hintLine, lastAgent>>
    ELSE /\ vault' = IdleVault
         /\ mcpClients' = v.clients
         /\ mcpTools' = v.tools
         /\ session' = [session EXCEPT !.agent = @ + 1, !.mcpClient = @ + 1,
                                        !.currentVaultPath = v.path,
                                        !.mcpServers = createMCPConfigWithPath(@, v.path)]
         /\ lastAgent' = [lastAgent EXCEPT !.local = session.agent + 1]
         /\ conversationHistory' = clearedHistory
         /\ chatHistory' = <<>>
         /\ hintLine' = promptHints(state)

\* switchVault: the awaited fs.stat settles. A path that is missing or no
\* directory ends the command; else MCPClientManager.disconnect starts.
StatReturn(res) ==
    /\ vault.pc = "stat"
    /\ IF isDirectory(res)
       THEN /\ IF mcpClients = {}
               THEN /\ vault' = [vault EXCEPT !.pc = "connect",
                                              !.pending = DOMAIN session.mcpServers]
                    /\ mcpTools' = {}
                    /\ mcpClients' = {}
               ELSE /\ vault' = [vault EXCEPT !.pc = "close", !.pending = mcpClients]
                    /\ UNCHANGED <<mcpTools, mcpClients>>
            /\ UNCHANGED hintLine
       ELSE /\ vault' = IdleVault
            /\ hintLine' = promptHints(state)
            /\ UNCHANGED <<mcpTools, mcpClients>>
    /\ UNCHANGED <<maxToolCalls, agentVars, nTurns, runnerFlags, handlerVars, model, session,
                   exportVars, ticker>>

\* MCPClientManager.disconnect: the awaited client.close of one client
\* settles (an error is caught). After the last one the maps are cleared and
\* connect of the new tool client starts.
CloseReturn(ok) ==
    /\ vault.pc = "close"
    /\ LET s == CHOOSE x \in vault.pending : TRUE
           m == closed([clients |-> mcpClients, tools |-> mcpTools], ok)
       IN  IF vault.pending # {s}
           THEN /\ vault' = [vault EXCEPT !.pending = @ \ {s}]
                /\ UNCHANGED <<mcpClients, mcpTools>>
           ELSE /\ mcpClients' = m.clients
                /\ mcpTools' = m.tools
                /\ vault' = [vault EXCEPT !.pc = "connect",
                                          !.pending = DOMAIN session.mcpServers]
    /\ UNCHANGED <<maxToolCalls, agentVars, nTurns, runnerVars, handlerVars, model, session,
                   exportVars, ticker>>

\* MCPClientManager.connectServer of the new client: the awaited
\* client.connect settles; an error is caught by connect.
ConnectReturn(ok) ==
    /\ vault.pc = "connect"
    /\ LET s == CHOOSE x \in vault.pending : TRUE
       IN  IF ok
           THEN /\ vault' = [vault EXCEPT !.pc = "listTools", !.clients = @ \cup {s}]
                /\ UNCHANGED <<mcpTools, mcpClients, conversationHistory, chatHistory, session,
                               hintLine, lastAgent>>
           ELSE serverDone([vault EXCEPT !.pending = stillToConnect(@, s, ok)])
    /\ UNCHANGED <<maxToolCalls, chat, log, nTurns, runnerFlags, handlerVars, model,
                   exportFile, ticker>>

\* MCPClientManager.connectServer of the new client: the awaited
\* client.listTools settles; an error is caught by connect.
ListToolsReturn(ok) ==
    /\ vault.pc = "listTools"
    /\ LET s == CHOOSE x \in vault.pending : TRUE
           listed == IF ok THEN {[serverName |-> s, name |-> n] : n \in ServerTools(s)} ELSE {}
       IN  serverDone([vault EXCEPT !.pending = stillToConnect(@, s, ok),
                                     !.tools = @ \cup listed])
    /\ UNCHANGED <<maxToolCalls, chat, log, nTurns, runnerFlags, handlerVars, model,
                   exportFile, ticker>>

\* ----------------------------------------------------------- specification
\* The session once runCLI has connected the tool client and run
\* Agent.initialize, with the input handler just constructed.
Init ==
    /\ maxToolCalls \in 0..MaxBudget
    /\ mcpClients \in SUBSET Servers
    /\ mcpTools = UNION {{[serverName |-> s, name |-> n] : n \in ServerTools(s)} : s \in mcpClients}
    /\ conversationHistory = clearedHistory
    /\ chatHistory = <<>>
    /\ chat = [t \in Turns |-> IdleChat]
    /\ nTurns = 0
    /\ waiting = FALSE
    /\ cancelled = [t \in Turns |-> FALSE]
    /\ aborted = [t \in Turns |-> FALSE]
    /\ listeners = {}
    /\ timers = {}
    /\ polls = {}
    /\ outcome = [t \in Turns |-> "none"]
    /\ rendered = {}
    /\ log = [t \in Turns |-> <<>>]
    /\ model \in ModelNames
    /\ state = newInputState(isThinkingCapable(model))
    /\ hintLine = promptHints(state)
    /\ exited = FALSE
    /\ session = [agent |-> 1, mcpClient |-> 1, inputHandler |-> 1,
                  currentVaultPath |-> extractVaultPath(loadedServers),
                  mcpServers |-> loadedServers]
    /\ vault = IdleVault
    /\ submitted = <<>>
    /\ lastAgent = [local |-> session.agent, export |-> NoAgent]
    /\ exportFile = [ran |-> FALSE, written |-> <<>>]
    /\ ticker = [t \in Turns |-> newTicker]

ToolResults == [ok : BOOLEAN, text : ResultTexts]

\* The session: key events, timer wake-ups and call completions interleave.
\* The model answers at once or after one tool round; tools that are called
\* succeed.
Next ==
    \/ \E input \in UserInputs : SubmitChat(input)
    \/ \E t \in Turns, reply \in RunnerReplies :
          /\ reply.toolCalls # <<>> => chat[t].toolCallCount = 0
          /\ ModelReturn(t, reply)
    \/ \E t \in Turns, res \in ToolResults :
          /\ chat[t].lookup = "called" => res.ok
          /\ ToolReturn(t, res)
    \/ \E t \in Turns : FinalReturn(t, Reply(<<"answer">>, <<>>))
    \/ \E t \in Turns : ModelThrow(t)
    \/ KeyEscape
    \/ \E t \in Turns : PollWake(t)
    \/ ClearHistory

\* The session whose tool server connected and registered its tools.
InitSession == Init /\ mcpClients = Servers /\ model = DefaultModel

Spec == InitSession /\ [][Next]_vars

\* The orchestrator alone: one turn that is never cancelled, against every
\* reply the model can give and every outcome of a tool call.
NextAgent ==
    \/ \E input \in UserInputs : nTurns = 0 /\ SubmitChat(input)
    \/ \E t \in Turns, reply \in LoopReplies : ModelReturn(t, reply)
    \/ \E t \in Turns, res \in ToolResults : ToolReturn(t, res)
    \/ \E t \in Turns, reply \in FinalReplies : FinalReturn(t, reply)
    \/ \E t \in Turns : ModelThrow(t)

SpecAgent == Init /\ [][NextAgent]_vars

\* The session whose tool server connected, with the largest tool budget.
InitPrompt == Init /\ mcpClients = Servers /\ maxToolCalls = MaxBudget

\* The input handler receiving printable characters only.
NextTyping == \E key \in Printable : KeyEvent(key)

SpecTyping == Init /\ [][NextTyping]_vars

\* The input handler against every key, with turns that end by the model's
\* answer.
NextInput ==
    \/ \E key \in Keys : KeyEvent(key)
    \/ \E t \in Turns : ModelReturn(t, Reply(<<"answer">>, <<>>))

SpecInput == InitPrompt /\ [][NextInput]_vars

StatResults == {"directory", "file", "missing"}
SessionKeys == {Key(97, "a"), TabKey, BackspaceKey, UpKey}

\* The session under slash commands: command lines, the keys that start no
\* chat turn, and the steps of switchVault.
NextSession ==
    \/ \E line \in CommandLines : SubmitLine(line)
    \/ \E key \in SessionKeys : KeyEvent(key)
    \/ \E res \in StatResults : StatReturn(res)
    \/ \E ok \in BOOLEAN : CloseReturn(ok)
    \/ \E ok \in BOOLEAN : ConnectReturn(ok)
    \/ \E ok \in BOOLEAN : ListToolsReturn(ok)

\* The session as runCLI leaves it, with the largest tool budget.
InitCommands == Init /\ maxToolCalls = MaxBudget

SpecSession == InitCommands /\ [][NextSession]_vars

\* The session with a cancellation poll that keeps running: the 100 ms timer
\* of a checkCancelled loop whose flag is set fires eventually. Nothing is
\* assumed of the model and tool calls, which may never return.
SpecPolling == Spec /\ \A t \in Turns : WF_vars(PollWake(t))

\* The session, and the `export` command run at any moment of it or after it.
NextExport == Next \/ ExportCommand

SpecExport == InitSession /\ [][NextExport]_vars

\* One chat turn at a time under every key, the elapsed-time interval and the
\* cancellation poll; the model answers or fails.
NextTurn ==
    \/ \E input \in UserInputs : SubmitChat(input)
    \/ \E key \in Keys : waiting /\ KeyEvent(key)
    \/ \E t \in Turns, elapsed \in ElapsedSeconds : Tick(t, elapsed)
    \/ \E t \in Turns : PollWake(t)
    \/ \E t \in Turns : ModelReturn(t, Reply(<<"answer">>, <<>>))
    \/ \E t \in Turns : ModelThrow(t)

SpecTurn == InitSession /\ [][NextTurn]_vars

OverlapKeys == {Key(97, "a"), Key(47, "/"), EnterKey}

\* The session in which keys arrive while switchVault runs: the /vault command,
\* typed text and Enter, the steps of switchVault, and the turns Enter starts.
NextOverlap ==
    \/ \E path \in VaultPaths : SubmitLine(<<"/", "vault", " ">> \o path)
    \/ \E key \in OverlapKeys : KeyEvent(key)
    \/ \E res \in StatResults : StatReturn(res)
    \/ \E ok \in BOOLEAN : CloseReturn(ok)
    \/ \E ok \in BOOLEAN : ConnectReturn(ok)
    \/ \E ok \in BOOLEAN : ListToolsReturn(ok)
    \/ \E t \in Turns, reply \in RunnerReplies :
          /\ reply.toolCalls # <<>> => chat[t].toolCallCount = 0
          /\ ModelReturn(t, reply)
    \/ \E t \in Turns, res \in ToolResults : ToolReturn(t, res)

SpecOverlap == InitPrompt /\ [][NextOverlap]_vars

\* ------------------------------------------------------------------ claims
\* The turns whose Agent.chat invocation has not yet returned or thrown.
InFlight == {t \in Turns : chat[t].pc \in {"awaitModel", "awaitTool", "awaitFinal"}}

\* The turns whose runner has returned control to the prompt.
Ended == {t \in Turns : outcome[t] \in {"response", "cancelled", "error"}}

\* Turn t issues a model call or dispatches a tool call in this step.
StartsCall(t) ==
    \E i \in (Len(log[t]) + 1)..Len(log'[t]) : log'[t][i].ev \in {"model", "final", "dispatch"}

\* C1: if the lone ESC (cancelled flag set, abort triggered) comes before the
\* chat promise resolves, the outcome of the race is `cancelled` and the
\* model's answer is not rendered.
C1_EscBeforeResolveCancels ==
    \A t \in Turns : cancelled[t] => outcome[t] # "response" /\ t \notin rendered

\* C2: at every moment at most one Agent.chat invocation is in flight.
C2_AtMostOneTurnInFlight == Cardinality(InFlight) <= 1

\* C3: once the abort signal of a turn is aborted, that turn's Agent.chat
\* issues no further model call and dispatches no further tool call.
C3_NoCallAfterAbort == [][\A t \in Turns : aborted[t] => ~StartsCall(t)]_vars

\* C4: when a turn has ended (response, cancellation or exception) its ticker
\* is stopped and its escape listener is removed, so none remains registered
\* while the prompt is idle.
C4_TurnEndCleansUp ==
    /\ \A t \in Ended : t \notin timers /\ t \notin listeners
    /\ ~waiting => timers = {} /\ listeners = {}

\* C5: `waiting` is true exactly while a chat turn's race is undecided: true
\* from the start of the turn, false once control is back at the prompt after
\* a response, a cancellation or an exception.
C5_WaitingWhileRacePending == waiting <=> (\E t \in Turns : outcome[t] = "pending")

C5_Witness ==
    /\ ~waiting
    /\ \E t \in Turns : outcome[t] = "error"
    /\ \E t \in Turns : outcome[t] = "cancelled"

\* C10: after initialize(), through every sequence of chat turns and
\* clearHistory() calls, conversationHistory is non-empty and its element 0
\* is the system message holding the configured system prompt.
C10_SystemPromptFirst ==
    /\ Len(conversationHistory) >= 1
    /\ conversationHistory[1] = Msg("system", SystemPrompt)

\* A cancelled turn kept appending after the history was cleared.
C10_Witness ==
    /\ chatHistory = <<>>
    /\ Len(conversationHistory) > 1
    /\ \E t \in Turns : outcome[t] = "cancelled"

\* ----------------------------------------------------- claims on one turn
Positions(t, kinds) == {i \in 1..Len(log[t]) : log[t][i].ev \in kinds}

\* Tool calls dispatched and model calls issued by turn t so far.
ToolCallsMade(t) == Cardinality(Positions(t, {"dispatch"}))
ModelCallsMade(t) == Cardinality(Positions(t, {"model", "final"}))

\* C6: the number of tool calls dispatched during one turn never exceeds
\* maxToolCalls, whatever the model replies.
C6_ToolCallsWithinBudget ==
    \A t \in Turns : ToolCallsMade(t) <= maxToolCalls /\ chat[t].toolCallCount <= maxToolCalls

\* The model has requested exactly one tool call in every reply of turn t to
\* a call that declared tools.
OneToolPerReply(t) ==
    \A i \in Positions(t, {"reply", "finalreply"}) :
        log[t][i].name = "tools" => log[t][i].k = 1

\* The content of the last model reply (the orchestrator runs alone, so the
\* last message of the history is the one this turn appended).
LastReplyContent == conversationHistory[Len(conversationHistory)].content

\* What C7 says of a finished turn: N tool calls, N+1 model calls, the last
\* of them the one call without tool declarations.
BudgetUsedUp(t) ==
    /\ ToolCallsMade(t) = maxToolCalls
    /\ ModelCallsMade(t) = maxToolCalls + 1
    /\ Cardinality(Positions(t, {"final"})) = 1
    /\ \A i \in Positions(t, {"final"}) :
          /\ log[t][i].name = "notools"
          /\ \A j \in Positions(t, {"model"}) : j < i /\ log[t][j].name = "tools"

\* C7 as stated: with budget N and a model that requests exactly one tool
\* call in every reply to a call that declares tools, a turn makes N tool
\* calls, then one final call without tool declarations, and returns that
\* call's content.
C7_OneToolPerReplyTurn ==
    \A t \in Turns :
        (chat[t].pc = "done" /\ OneToolPerReply(t)) =>
            BudgetUsedUp(t) /\ chat[t].content = LastReplyContent

\* C7 amended: the same when at least one tool is registered (so that the
\* calls of the loop declare tools), the turn returning the final call's
\* content or, when that is empty, the placeholder. Until it returns, the
\* turn has made at most N tool calls and N+1 model calls, so it terminates
\* when every call returns.
C7_OneToolPerReplyTurnAmended ==
    \A t \in Turns :
        (chat[t].tools # {} /\ OneToolPerReply(t)) =>
            /\ ToolCallsMade(t) <= maxToolCalls
            /\ ModelCallsMade(t) <= maxToolCalls + 1
            /\ chat[t].pc = "done" =>
                  /\ BudgetUsedUp(t)
                  /\ chat[t].content =
                        IF LastReplyContent = <<>> THEN <<"(No response)">> ELSE LastReplyContent

C7_Witness ==
    \E t \in Turns :
        /\ chat[t].pc = "done" /\ chat[t].tools # {} /\ OneToolPerReply(t)
        /\ maxToolCalls = MaxBudget /\ ToolCallsMade(t) = MaxBudget
        /\ chat[t].content = <<"(No response)">>

\* The position of the reply that requested the tool call logged at i.
ReplyBefore(t, i) ==
    CHOOSE r \in Positions(t, {"reply"}) :
        r < i /\ \A q \in Positions(t, {"reply"}) : q < i => q <= r

Range(f) == {f[i] : i \in DOMAIN f}

\* The error messages of the history: tool-role messages `Error: <text> <tool>`.
ErrorMessages ==
    {j \in 1..Len(conversationHistory) :
        /\ conversationHistory[j].role = "tool"
        /\ Head(conversationHistory[j].content) = "Error: "}

\* The tool calls that failed in turns 1..n.
RECURSIVE ToolErrorsUpTo(_)
ToolErrorsUpTo(n) ==
    IF n = 0 THEN 0 ELSE Cardinality(Positions(n, {"toolerr"})) + ToolErrorsUpTo(n - 1)

\* C8: a callTool that throws (unknown tool, unconnected server, or a failure
\* of the tool) does not abort the turn: one tool-role message carrying the
\* error text is appended, the remaining invocations of the reply are still
\* dispatched, the model is called again, and toolsUsed holds the tool's name.
C8_ToolFailureIsolated ==
    /\ \A t \in Turns : \A i \in Positions(t, {"toolerr"}) :
          LET l == log[t]
              n == l[ReplyBefore(t, i)].k
          IN  /\ l[i - 1] = Ev("dispatch", l[i].name, l[i].k)
              /\ i < Len(l)
              /\ IF l[i].k < n
                 THEN l[i + 1].ev = "dispatch" /\ l[i + 1].k = l[i].k + 1
                 ELSE l[i + 1].ev \in {"model", "final"}
              /\ l[i].name \in Range(chat[t].toolsUsed)
    /\ Cardinality(ErrorMessages) = ToolErrorsUpTo(MaxTurns)
    /\ \A j \in ErrorMessages :
          \E t \in Turns : \E i \in Positions(t, {"toolerr"}) :
              conversationHistory[j].content[Len(conversationHistory[j].content)] = log[t][i].name

\* A finished turn in which an unknown tool failed before another invocation
\* of the same reply.
C8_Witness ==
    \E t \in Turns :
        /\ chat[t].pc = "done"
        /\ \E i \in Positions(t, {"toolerr"}) :
              /\ log[t][i].name = "bogus"
              /\ log[t][i].k < log[t][ReplyBefore(t, i)].k

\* The tool messages that follow the last assistant message of the history.
LastAssistant ==
    CHOOSE a \in 1..Len(conversationHistory) :
        /\ conversationHistory[a].role = "assistant"
        /\ \A b \in (a + 1)..Len(conversationHistory) : conversationHistory[b].role # "assistant"

\* C9: the tool invocations of a reply of the loop are dispatched one at a
\* time in the order the model returned them, each after the previous one
\* completed or failed; one tool-role message per invocation is appended in
\* that order, and all of them before the next model call is issued.
C9_SequentialInOrder ==
    \A t \in Turns :
        LET l == log[t] IN
        /\ \A r \in Positions(t, {"reply"}) : \A j \in 1..l[r].k :
              /\ r + 2 * j - 1 <= Len(l) =>
                    l[r + 2 * j - 1].ev = "dispatch" /\ l[r + 2 * j - 1].k = j
              /\ r + 2 * j <= Len(l) =>
                    /\ l[r + 2 * j].ev \in {"toolmsg", "toolerr"}
                    /\ l[r + 2 * j].k = j
                    /\ l[r + 2 * j].name = l[r + 2 * j - 1].name
              /\ r + 2 * l[r].k + 1 <= Len(l) => l[r + 2 * l[r].k + 1].ev \in {"model", "final"}
        /\ chat[t].pc \in {"awaitTool", "awaitModel", "awaitFinal"} /\ Positions(t, {"reply"}) # {} =>
              LET r == ReplyBefore(t, Len(l) + 1)
                  calls == chat[t].toolCalls
                  appended == Cardinality({i \in Positions(t, {"toolmsg", "toolerr"}) : i > r})
              IN  /\ Len(calls) = l[r].k
                  /\ \A j \in 1..Len(calls) :
                        r + 2 * j - 1 <= Len(l) => l[r + 2 * j - 1].name = calls[j]
                  /\ Len(conversationHistory) = LastAssistant + appended
                  /\ \A j \in 1..appended :
                        LET m == conversationHistory[LastAssistant + j]
                        IN  m.role = "tool" /\ m.content[Len(m.content)] = calls[j]
                  /\ chat[t].pc \in {"awaitModel", "awaitFinal"} => appended = Len(calls)

\* Two different tools requested in one reply, both answered, the next model
\* call issued.
C9_Witness ==
    \E t \in Turns :
        /\ chat[t].pc \in {"awaitModel", "awaitFinal"}
        /\ chat[t].toolCalls = <<"read", "bogus">>
        /\ Len(conversationHistory) = LastAssistant + 2

\* C11: a step of clearHistory leaves conversationHistory holding the system
\* prompt alone and the export transcript empty, whatever came before, and
\* changes neither maxToolCalls nor the activations of Agent.chat.
C11_ClearHistoryResets ==
    [][ClearHistory =>
          /\ Len(conversationHistory') = 1
          /\ conversationHistory'[1] = SystemMessage
          /\ chatHistory' = <<>>
          /\ maxToolCalls' = maxToolCalls
          /\ chat' = chat]_vars

\* Every turn of the session ran to its answer, and the history was cleared
\* afterwards.
C11_Witness ==
    /\ nTurns = MaxTurns
    /\ \A t \in Turns : chat[t].pc = "done"
    /\ Len(conversationHistory) = 1
    /\ chatHistory = <<>>

\* C12: in every reachable InputState, the constructed one included,
\* historyIndex lies in [0, history.length].
C12_HistoryIndexInRange == state.historyIndex \in 0..Len(state.history)

\* C13: from the constructed handler, under printable keystrokes alone, every
\* keystroke leaves the buffer equal to the keystrokes received so far: each
\* one is added at the end of the buffer.
C13_BufferIsConcatenation ==
    [][\A key \in Printable :
          KeyEvent(key) => state'.buffer = Append(state.buffer, key.str)]_vars

\* C13, amended: every printable keystroke is added at the end of the buffer,
\* but a `?` received while the buffer is empty, which is not added.
C13_BufferIsConcatenationAmended ==
    [][\A key \in Printable :
          KeyEvent(key) =>
              state'.buffer = IF key.str = "?" /\ state.buffer = <<>>
                              THEN <<>>
                              ELSE Append(state.buffer, key.str)]_vars

\* A `?` was typed behind another character and is part of the buffer.
C13_Witness == state.buffer = <<"a", "?">> /\ state.history = <<>> /\ state.historyIndex = -1

\* C14: cursorPos equals the length of the buffer in every reachable
\* InputState, whatever keys were received in whatever overlay state.
C14_CursorAtEnd == state.cursorPos = Len(state.buffer)

\* The slash at the empty prompt put one character into the buffer and opened
\* the commands panel, after an earlier submission.
C14_Witness ==
    /\ state.panelVisible = "commands"
    /\ state.buffer = <<"/">>
    /\ state.cursorPos = 1
    /\ Len(state.history) = MaxHist

\* The handler takes keys at the prompt: no turn is awaited, no panel is shown.
AtPrompt == ~exited /\ ~waiting /\ state.panelVisible = "none"

\* C15: with the inputs h1..hn (n >= 1) submitted, Enter leaves the pointer
\* behind hn with an empty buffer; an Up press at the prompt moves the pointer
\* one entry back and shows that entry, so the i-th press in a row shows
\* h(n-i+1), and at h1 it changes nothing; a Down press moves to the next
\* newer entry, and at hn (or behind it) it empties the buffer and sets
\* historyIndex to history.length.
C15_HistoryNavigation ==
    [][(AtPrompt /\ Len(state.history) >= 1) =>
          /\ KeyEvent(UpKey) =>
                IF state.historyIndex >= 1
                THEN /\ state'.historyIndex = state.historyIndex - 1
                     /\ state'.buffer = state.history[state.historyIndex]
                ELSE /\ state'.historyIndex = 0
                     /\ state'.buffer = state.buffer
          /\ KeyEvent(DownKey) =>
                IF state.historyIndex + 1 < Len(state.history)
                THEN /\ state'.historyIndex = state.historyIndex + 1
                     /\ state'.buffer = state.history[state.historyIndex + 2]
                ELSE /\ state'.historyIndex = Len(state.history)
                     /\ state'.buffer = <<>>
          /\ (KeyEvent(EnterKey) /\ state'.history # state.history) =>
                /\ state'.historyIndex = Len(state'.history)
                /\ state'.buffer = <<>>]_vars

\* Two different inputs were submitted and Up was pressed back to the first.
C15_Witness ==
    /\ AtPrompt
    /\ Len(state.history) = 2
    /\ state.history[1] # state.history[2]
    /\ state.historyIndex = 0
    /\ state.buffer = state.history[1]

C17_DismissalRestoresHintLine ==
    [][(/\ state.panelVisible # "none"
        /\ state'.panelVisible = "none"
        /\ state'.thinkingEnabled = state.thinkingEnabled
        /\ state'.modelSupportsThinking = state.modelSupportsThinking) =>
          hintLine' = hintLine]_vars

\* C18: whenever the shortcuts panel is visible the buffer is empty; the
\* panel becomes visible only by a `?` received with an empty buffer; and a
\* `?` received with a non-empty buffer is appended and does not open it.
C18_ShortcutsOnlyAtEmptyBuffer ==
    /\ [](state.panelVisible = "shortcuts" => state.buffer = <<>>)
    /\ [][/\ (state'.panelVisible = "shortcuts" /\ state.panelVisible # "shortcuts") =>
                 (KeyEvent(Key(63, "?")) /\ state.buffer = <<>>)
          /\ (KeyEvent(Key(63, "?")) /\ ~exited /\ ~waiting /\ state.buffer # <<>>) =>
                 /\ state'.buffer = Append(state.buffer, "?")
                 /\ state'.panelVisible = state.panelVisible
                 /\ state'.panelVisible # "shortcuts"]_vars

\* The shortcuts panel is open at an empty prompt after a submission.
C18_Witness ==
    /\ state.panelVisible = "shortcuts"
    /\ state.buffer = <<>>
    /\ Len(state.history) = 1

\* The positions of the section headings of a document.
Headings(doc) == {i \in DOMAIN doc : doc[i] \in {<<"## User">>, <<"## Assistant">>}}

\* The k-th section of a document: from its heading up to the next heading.
Section(doc, k) ==
    LET H == Headings(doc)
        start == CHOOSE i \in H : Cardinality({j \in H : j <= i}) = k
        later == {j \in H : j > start}
        end == IF later = {} THEN Len(doc) ELSE (CHOOSE j \in later : \A l \in later : j <= l) - 1
    IN  SubSeq(doc, start, end)

\* The header of a document: the lines before the first section.
Header(doc) ==
    LET H == Headings(doc)
    IN  IF H = {} THEN doc ELSE SubSeq(doc, 1, (CHOOSE i \in H : \A j \in H : i <= j) - 1)

UserTurns == {i \in DOMAIN chatHistory : chatHistory[i].role = "user"}

\* C19: the export of the transcript has one section per turn, in the order
\* of the transcript: `## User` with the text; `## Assistant` with the text,
\* preceded by the `Tools used` line exactly when the turn used tools, and
\* followed by a separator; the header counts the user turns.
C19_ExportSections ==
    LET doc == exportToMarkdown(chatHistory, model)
    IN  /\ Cardinality(Headings(doc)) = Len(chatHistory)
        /\ <<"**Turns**: ">> \o numeral(Cardinality(UserTurns)) \in Range(Header(doc))
        /\ \A k \in DOMAIN chatHistory :
              LET turn == chatHistory[k]
                  sec == Section(doc, k)
                  toolsLine == <<"*Tools used: ">> \o joinNames(turn.toolsUsed, ", ") \o <<"*">>
              IN  IF turn.role = "user"
                  THEN sec = <<<<"## User">>, <<>>, turn.content, <<>>>>
                  ELSE IF turn.toolsUsed # <<>>
                  THEN sec = <<<<"## Assistant">>, <<>>, toolsLine, <<>>, turn.content, <<>>,
                               <<"---">>, <<>>>>
                  ELSE sec = <<<<"## Assistant">>, <<>>, turn.content, <<>>, <<"---">>, <<>>>>

\* A transcript of two turns, one answered with a tool and one without: its
\* export carries the annotation once.
C19_Witness ==
    LET doc == exportToMarkdown(chatHistory, model)
    IN  /\ Len(chatHistory) = 4
        /\ Cardinality({i \in DOMAIN doc : doc[i] = <<"*Tools used: ", "read", "*">>}) = 1
        /\ Cardinality({i \in DOMAIN doc : doc[i] = <<"---">>}) = 3

\* The step in which switchVault puts the new objects into the session.
VaultSwitched == vault.pc \in {"connect", "listTools"} /\ vault'.pc = "idle"

\* The step in which `/model <name>` is submitted.
ModelSwitched(name) == SubmitLine(<<"/", "model", " ">> \o name)

\* C20: a vault switch and a model switch each put a new orchestrator and a
\* new tool client into the session, keep the input handler object, and
\* change nothing of its state but the thinking-capability flag.
C20_SwitchReplacesObjects ==
    [][/\ VaultSwitched =>
             /\ session'.agent # session.agent
             /\ session'.mcpClient # session.mcpClient
             /\ session'.inputHandler = session.inputHandler
             /\ state'.thinkingEnabled = state.thinkingEnabled
       /\ \A name \in ModelNames :
             ModelSwitched(name) =>
                 /\ session'.agent # session.agent
                 /\ session'.mcpClient # session.mcpClient
                 /\ session'.inputHandler = session.inputHandler
                 /\ state'.thinkingEnabled = state.thinkingEnabled]_vars

\* C20, amended: a vault switch puts a new orchestrator and a new tool client
\* into the session and leaves the input handler and its state as they are;
\* a model switch keeps all three objects, sets the model name of the model
\* client, and updates the handler's thinking-capability flag, clearing
\* thinkingEnabled when the new model is not thinking-capable.
C20_SwitchReplacesObjectsAmended ==
    [][/\ VaultSwitched =>
             /\ session'.agent > session.agent
             /\ session'.mcpClient > session.mcpClient
             /\ session'.inputHandler = session.inputHandler
             /\ state' = state
             /\ model' = model
       /\ \A name \in ModelNames :
             ModelSwitched(name) =>
                 /\ session' = session
                 /\ model' = name
                 /\ state'.modelSupportsThinking = isThinkingCapable(name)
                 /\ state'.thinkingEnabled =
                        (state.thinkingEnabled /\ isThinkingCapable(name))]_vars

\* The model was switched to a thinking-capable one, then the vault was
\* switched.
C20_Witness ==
    /\ state.history = <<<<"/", "model", " ", "Qwen3", ":8b">>, <<"/", "vault", " ", "~", "/vault-b">>>>
    /\ model = <<"Qwen3", ":8b">>
    /\ state.modelSupportsThinking
    /\ vault.pc = "idle"
    /\ session.agent = 2 /\ session.mcpClient = 2 /\ session.inputHandler = 1

\* A turn of the session ran to its answer and the answer is in the transcript.
TurnCompleted == \E t \in Turns : chat[t].pc = "done" /\ Len(chatHistory) >= 2

\* C21: after a chat session in which at least one turn completed, running
\* the `export` command writes that session's transcript to a markdown file.
C21_ExportWritesLastSession ==
    [][(ExportCommand /\ TurnCompleted) =>
          exportFile'.written = <<exportToMarkdown(chatHistory, model)>>]_vars

\* A lone ESC was received while turn t is awaited.
EscWhileAwaited(t) == waiting /\ outcome[t] = "pending" /\ cancelled[t]

\* C22: a lone ESC pressed while a turn is awaited leads to waiting = false,
\* whether or not the model call of that turn ever returns, provided the
\* cancellation poll keeps running.
C22_EscLeadsToPrompt == \A t \in Turns : EscWhileAwaited(t) ~> ~waiting

\* The runner is back at the prompt after a cancellation while the model call
\* of that turn is still outstanding.
C22_Witness ==
    /\ ~waiting
    /\ \E t \in Turns : outcome[t] = "cancelled" /\ chat[t].pc = "awaitModel" /\ t \notin polls

\* The InputState a key leaves when it is received in the `none` state with
\* the buffer, history and flags of the current state.
InNoneState(key) ==
    handleKey([state EXCEPT !.panelVisible = "none"], hintLine, FALSE, key).s

\* C23: in the shortcuts state every keystroke dismisses the panel; Backspace
\* and the lone ESC do nothing more, and every other keystroke (the Up and
\* Down arrow sequences included) leaves exactly the InputState it leaves when
\* received in the `none` state with the same buffer and history.
C23_ShortcutsKeyReprocessed ==
    [][\A key \in Keys \ {CtrlCKey} :
          (KeyEvent(key) /\ ~waiting /\ state.panelVisible = "shortcuts") =>
              IF key \in {BackspaceKey, EscKey}
              THEN state' = [state EXCEPT !.panelVisible = "none"]
              ELSE state' = InNoneState(key)]_vars

\* The commands panel is open and the handler takes keys.
InCommands == ~exited /\ ~waiting /\ state.panelVisible = "commands"

\* C24: in the commands state a printable character is appended and the panel
\* stays open; Backspace removes one character and keeps the panel open
\* unless the buffer would become empty, in which case the panel is dismissed
\* with an empty buffer; the lone ESC dismisses the panel and empties the
\* buffer; Enter dismisses the panel and submits the trimmed buffer.
C24_CommandsPanelKeys ==
    [][InCommands =>
          /\ \A key \in Printable :
                KeyEvent(key) =>
                    /\ state'.buffer = Append(state.buffer, key.str)
                    /\ state'.panelVisible = "commands"
          /\ KeyEvent(BackspaceKey) =>
                IF Len(state.buffer) > 1
                THEN /\ state'.buffer = SubSeq(state.buffer, 1, Len(state.buffer) - 1)
                     /\ state'.panelVisible = "commands"
                ELSE /\ state'.buffer = <<>>
                     /\ state'.panelVisible = "none"
          /\ KeyEvent(EscKey) =>
                /\ state'.buffer = <<>>
                /\ state'.panelVisible = "none"
          /\ KeyEvent(EnterKey) =>
                /\ state'.panelVisible = "none"
                /\ state'.buffer = <<>>
                /\ submitted' = Append(submitted, trim(state.buffer))]_vars

\* A command line with a trailing blank was typed in the commands panel and
\* submitted with Enter: the trimmed line was handed to onSubmit.
C24_Witness ==
    /\ submitted = <<<<"/", "a">>>>
    /\ state.history = submitted
    /\ state.panelVisible = "none"
    /\ state.buffer = <<>>

\* The fields of the InputState the claims on ignored keys list.
EditFields(s) == <<s.buffer, s.cursorPos, s.history, s.historyIndex, s.panelVisible>>

\* C25: with waiting = false, in every overlay state, an escape sequence other
\* than `ESC [ A` and `ESC [ B` leaves buffer, cursorPos, history,
\* historyIndex and the overlay unchanged; and the arrow sequences do what
\* history navigation does to buffer, cursorPos and historyIndex, never what a
\* lone ESC does.
C25_EscapeSequences ==
    [][(~exited /\ ~waiting) =>
          /\ KeyEvent(RightKey) => EditFields(state') = EditFields(state)
          /\ \A key \in {UpKey, DownKey} :
                KeyEvent(key) =>
                    /\ state'.buffer = InNoneState(key).buffer
                    /\ state'.cursorPos = InNoneState(key).cursorPos
                    /\ state'.historyIndex = InNoneState(key).historyIndex
                    /\ state'.history = state.history]_vars

\* C26: while waiting = true, every keystroke other than Ctrl+C leaves the
\* whole InputState unchanged and invokes no submit callback.
C26_KeysIgnoredWhileWaiting ==
    /\ [](waiting =>
            \A key \in Keys \ {CtrlCKey} :
                LET h == handleKey(state, hintLine, waiting, key)
                IN  h.s = state /\ h.submit = <<>> /\ ~h.exit)
    /\ [][\A key \in Keys \ {CtrlCKey} :
            (waiting /\ KeyEvent(key)) => state' = state /\ submitted' = submitted]_vars

\* A lone ESC was received during a turn that followed an earlier submission:
\* the runner's listener took it, the InputState is as Enter left it.
C26_Witness ==
    /\ waiting
    /\ \E t \in Turns : cancelled[t] /\ outcome[t] = "pending"
    /\ Len(state.history) = 2
    /\ state.historyIndex = 2
    /\ state.buffer = <<>>
    /\ Len(submitted) = 2

\* C27: Ctrl+C calls the exit handler in every state of the input state
\* machine, waiting or not, whatever panel is visible, and changes no field
\* of the InputState before it does.
C27_CtrlCAlwaysExits ==
    /\ [](LET h == handleKey(state, hintLine, waiting, CtrlCKey)
          IN  h.exit /\ h.s = state /\ h.submit = <<>>)
    /\ [][KeyEvent(CtrlCKey) =>
            /\ exited'
            /\ state' = state
            /\ waiting' = waiting
            /\ submitted' = submitted]_vars

\* Ctrl+C was received while a turn was awaited.
C27_Witness == exited /\ waiting /\ \E t \in Turns : outcome[t] = "pending"

\* C28: Enter with no overlay: when the trimmed buffer is non-empty it is
\* appended to the history, historyIndex becomes history.length, the buffer
\* is emptied and onSubmit is called exactly once, with the trimmed text;
\* when it is empty, history and historyIndex stay and onSubmit is not
\* called. So the history never holds an empty entry.
C28_EnterSubmitsTrimmed ==
    /\ [](\A i \in DOMAIN state.history : state.history[i] # <<>>)
    /\ [][(AtPrompt /\ KeyEvent(EnterKey)) =>
            IF trim(state.buffer) # <<>>
            THEN /\ state'.history = Append(state.history, trim(state.buffer))
                 /\ state'.historyIndex = Len(state'.history)
                 /\ state'.buffer = <<>>
                 /\ submitted' = Append(submitted, trim(state.buffer))
            ELSE /\ state'.history = state.history
                 /\ state'.historyIndex = state.historyIndex
                 /\ submitted' = submitted]_vars

\* Two texts typed at the prompt were submitted one after the other; the
\* second turn is awaited.
C28_Witness ==
    /\ state.history = <<<<"a">>, <<"a", "a">>>>
    /\ submitted = state.history
    /\ state.historyIndex = 2
    /\ state.buffer = <<>>
    /\ waiting

\* Tab, received in the current state, flips thinkingEnabled.
TabFlips == handleKey(state, hintLine, waiting, TabKey).s.thinkingEnabled # state.thinkingEnabled

\* C29: Tab flips thinkingEnabled if and only if modelSupportsThinking is
\* true, no overlay is active and waiting is false; in every case it leaves
\* buffer, cursorPos, history, historyIndex and the overlay unchanged.
C29_TabToggles ==
    /\ [](/\ TabFlips <=>
               (state.modelSupportsThinking /\ state.panelVisible = "none" /\ ~waiting)
          /\ EditFields(handleKey(state, hintLine, waiting, TabKey).s) = EditFields(state))
    /\ [][KeyEvent(TabKey) =>
            /\ (state'.thinkingEnabled # state.thinkingEnabled) =>
                  (state.modelSupportsThinking /\ state.panelVisible = "none" /\ ~waiting)
            /\ EditFields(state') = EditFields(state)]_vars

\* C29, amended: Tab flips thinkingEnabled if and only if modelSupportsThinking
\* is true, waiting is false and the commands overlay is not active; it leaves
\* buffer, cursorPos, history and historyIndex unchanged, and the overlay too,
\* except that with waiting false it dismisses the shortcuts overlay.
C29_TabTogglesAmended ==
    /\ [](LET s == handleKey(state, hintLine, waiting, TabKey).s
          IN  /\ TabFlips <=>
                    (state.modelSupportsThinking /\ state.panelVisible # "commands" /\ ~waiting)
              /\ s.buffer = state.buffer /\ s.cursorPos = state.cursorPos
              /\ s.history = state.history /\ s.historyIndex = state.historyIndex
              /\ s.panelVisible =
                    IF state.panelVisible = "shortcuts" /\ ~waiting
                    THEN "none"
                    ELSE state.panelVisible)
    /\ [][KeyEvent(TabKey) =>
            /\ (state'.thinkingEnabled # state.thinkingEnabled) =>
                  (state.modelSupportsThinking /\ state.panelVisible # "commands" /\ ~waiting)
            /\ state' = [state EXCEPT !.thinkingEnabled = state'.thinkingEnabled,
                                      !.panelVisible = IF @ = "shortcuts" /\ ~waiting
                                                       THEN "none" ELSE @]]_vars

\* Tab switched the display of thinking off at a prompt that holds text, and
\* repainted the hint line.
C29_Witness ==
    /\ state.modelSupportsThinking
    /\ ~state.thinkingEnabled
    /\ state.panelVisible = "none"
    /\ state.buffer = <<"a">>
    /\ hintLine = tabHints(state)

\* C30: when the loop of a turn ends because toolCallCount >= maxToolCalls,
\* exactly one further model call is made; it declares no tools; its message
\* is appended to conversationHistory; the turn's answer is that message's
\* content, or `(No response)` when the content is empty; and the tool calls
\* that reply requests are not dispatched.
C30_FinalCallWithoutTools ==
    \A t \in Turns :
        LET l == log[t]
            F == Positions(t, {"final"})
        IN  /\ Cardinality(F) <= 1
            /\ chat[t].pc = "awaitModel" => chat[t].toolCallCount < maxToolCalls
            /\ chat[t].pc = "awaitFinal" => F # {}
            /\ chat[t].pc = "done" => (F # {} <=> chat[t].toolCallCount >= maxToolCalls)
            /\ \A i \in F :
                  /\ l[i].name = "notools"
                  /\ chat[t].toolCallCount >= maxToolCalls
                  /\ \A j \in (i + 1)..Len(l) : l[j].ev \in {"finalreply", "return", "throw"}
                  /\ chat[t].pc = "done" =>
                        /\ Len(l) = i + 2
                        /\ l[i + 1].ev = "finalreply"
                        /\ l[i + 2].ev = "return"
                        /\ conversationHistory[Len(conversationHistory)].role = "assistant"
                        /\ chat[t].content =
                              IF LastReplyContent = <<>> THEN <<"(No response)">>
                              ELSE LastReplyContent
                        /\ chatHistory[Len(chatHistory)] =
                              ChatTurn("assistant", chat[t].content, chat[t].toolsUsed)

\* The budget was used up by tool calls, and the final reply came without
\* content and with a request for a tool, which was not dispatched.
C30_Witness ==
    \E t \in Turns :
        /\ chat[t].pc = "done"
        /\ maxToolCalls = MaxBudget
        /\ ToolCallsMade(t) >= MaxBudget
        /\ \E i \in Positions(t, {"finalreply"}) : log[t][i].k = 1 /\ i = Len(log[t]) - 1
        /\ chat[t].content = <<"(No response)">>
        /\ LastReplyContent = <<>>

\* The names of a toolsUsed value are pairwise different.
NoDuplicates(names) == \A i, j \in DOMAIN names : names[i] = names[j] => i = j

\* C31: the toolsUsed value a turn returns, and the one recorded in the export
\* transcript, holds each tool name at most once, however often the model
\* invoked the tool in the turn.
C31_ToolsUsedIsSet ==
    /\ \A t \in Turns : chat[t].pc = "done" => NoDuplicates(chat[t].toolsUsed)
    /\ \A i \in DOMAIN chatHistory : NoDuplicates(chatHistory[i].toolsUsed)

\* The transcript is user, assistant, user, assistant, ...
Alternating(history) ==
    \A i \in DOMAIN history : history[i].role = IF i % 2 = 1 THEN "user" ELSE "assistant"

\* C32: every turn adds one user entry and one assistant entry to the export
\* transcript, so that whenever no turn is awaited the transcript alternates
\* user, assistant, ... and has as many assistant entries as user entries;
\* also for a turn whose model call throws.
C32_TranscriptAlternates ==
    ~waiting => Alternating(chatHistory) /\ Len(chatHistory) % 2 = 0

\* C38: once a turn was reported as cancelled, it changes neither
\* conversationHistory nor the export transcript.
C38_CancelledTurnAppendsNothing ==
    [][\A t \in Turns :
          (outcome[t] = "cancelled" /\ log'[t] # log[t]) =>
              conversationHistory' = conversationHistory /\ chatHistory' = chatHistory]_vars

\* C33: during a turn only a key event that is the ESC byte alone sets the
\* `cancelled` flag and aborts the signal: arrow sequences, the other escape
\* sequences and every other key leave both as they are, and so does every
\* wake-up of the elapsed-time interval, the 60-second hint included; a turn
\* is reported as cancelled only with its flag set.
C33_OnlyLoneEscCancels ==
    /\ [](\A t \in Turns : (aborted[t] => cancelled[t])
                           /\ (outcome[t] = "cancelled" => cancelled[t]))
    /\ [][/\ \A key \in Keys \ {EscKey} :
                KeyEvent(key) => cancelled' = cancelled /\ aborted' = aborted
          /\ \A t \in Turns, elapsed \in ElapsedSeconds :
                Tick(t, elapsed) =>
                    cancelled' = cancelled /\ aborted' = aborted /\ outcome' = outcome
          /\ \A t \in Turns :
                (cancelled'[t] # cancelled[t] \/ aborted'[t] # aborted[t]) =>
                    /\ KeyEvent(EscKey)
                    /\ t \in listeners
                    /\ cancelled'[t] /\ aborted'[t]]_vars

\* A turn is awaited for more than a minute: the cancel hint is shown, the turn
\* is neither cancelled nor aborted, and the race is still pending.
C33_Witness ==
    \E t \in Turns :
        /\ waiting /\ outcome[t] = "pending" /\ t \in listeners
        /\ ticker[t].cancelHintShown /\ ticker[t].elapsed > HintAfter
        /\ ~cancelled[t] /\ ~aborted[t]

\* The awaited fs.stat of switchVault settles with `res` in this step.
StatSettles(res) == StatReturn(res)

\* C34: a /vault command whose path is missing or is no directory leaves the
\* session as it was: the tool client keeps its connected clients and its
\* tools, and agent, mcpClient, currentVaultPath and config.mcpServers (and the
\* histories of the agent) are unchanged, both when the command is submitted
\* and when it ends at the failed check.
C34_BadVaultPathChangesNothing ==
    [][/\ \A res \in StatResults \ {"directory"} :
             StatSettles(res) =>
                 /\ vault'.pc = "idle"
                 /\ session' = session
                 /\ mcpClients' = mcpClients /\ mcpTools' = mcpTools
                 /\ lastAgent' = lastAgent
                 /\ conversationHistory' = conversationHistory
                 /\ chatHistory' = chatHistory
       /\ (vault.pc = "idle" /\ vault'.pc = "stat") =>
             /\ session' = session
             /\ mcpClients' = mcpClients /\ mcpTools' = mcpTools]_vars

\* A /vault command was submitted and has ended without a switch: the session
\* still has its first agent and tool client, both servers connected with
\* their tools, and the vault path it started with.
C34_Witness ==
    /\ \E i \in DOMAIN submitted : submitted[i] = <<"/", "vault", " ", "~", "/vault-b">>
    /\ vault.pc = "idle"
    /\ session.agent = 1 /\ session.mcpClient = 1
    /\ session.currentVaultPath = InitialVaultPath
    /\ session.mcpServers = loadedServers
    /\ mcpClients = Servers
    /\ getOllamaTools = {"read", "lookup"}

\* The tools the servers of `clients` offer.
ToolsOf(clients) ==
    UNION {{[serverName |-> s, name |-> n] : n \in ServerTools(s)} : s \in clients}

\* C35: connect() never fails as a whole. A server whose client.connect fails
\* is registered neither as a client nor with tools, and connect goes on with
\* the servers that remain; a server whose listTools fails stays without
\* tools. When connect is through, no server is left out, the tools are those
\* of servers that connected, and switchVault goes on to put the new client
\* into the session, also with no tool at all.
C35_ConnectNeverFails ==
    /\ [](/\ vault.pc \in {"connect", "listTools"} =>
               /\ vault.pending # {}
               /\ vault.clients \subseteq DOMAIN session.mcpServers
               /\ vault.tools \subseteq ToolsOf(vault.clients)
          /\ vault.pc = "idle" => mcpTools \subseteq ToolsOf(mcpClients))
    /\ [][/\ ConnectReturn(FALSE) =>
                   IF Cardinality(vault.pending) > 1
                   THEN /\ vault'.pc = "connect"
                        /\ vault'.clients = vault.clients /\ vault'.tools = vault.tools
                        /\ Cardinality(vault'.pending) = Cardinality(vault.pending) - 1
                        /\ session' = session
                   ELSE /\ vault'.pc = "idle"
                        /\ session'.mcpClient = session.mcpClient + 1
                        /\ mcpClients' = vault.clients /\ mcpTools' = vault.tools
          /\ ListToolsReturn(FALSE) =>
                   IF Cardinality(vault.pending) > 1
                   THEN /\ vault'.pc = "connect"
                        /\ vault'.clients = vault.clients /\ vault'.tools = vault.tools
                   ELSE /\ vault'.pc = "idle"
                        /\ mcpClients' = vault.clients /\ mcpTools' = vault.tools]_vars

\* The first server of the new tool client failed to connect and the second
\* one connected: its tools are being listed.
C35_Witness ==
    /\ vault.pc = "listTools"
    /\ Cardinality(vault.pending) = 1
    /\ vault.clients = vault.pending
    /\ vault.tools = {}

\* The names a tool call can carry: those the model asks for and those the
\* servers offer.
ToolNames == CallNames \cup UNION {ServerTools(s) : s \in Servers}

\* C40: in the tool client of the session and in the one switchVault is
\* connecting, every registered tool belongs to a server that has a client in
\* the client map, so callTool never finds a tool without its client. Once
\* disconnect() is through, also when a close threw, the client map and the
\* tool list are empty, and until the new client is in the session callTool
\* finds no tool at all.
C40_ToolsHaveClients ==
    /\ [](/\ \A tl \in mcpTools : tl.serverName \in mcpClients
          /\ \A tl \in vault.tools : tl.serverName \in vault.clients
          /\ \A n \in ToolNames : callToolLookup(n) # "noclient"
          /\ vault.pc \in {"connect", "listTools"} =>
                /\ mcpClients = {} /\ mcpTools = {}
                /\ \A n \in ToolNames : callToolLookup(n) = "notfound")
    /\ [][\A ok \in BOOLEAN :
             CloseReturn(ok) =>
                 IF Cardinality(vault.pending) > 1
                 THEN mcpClients' = mcpClients /\ mcpTools' = mcpTools
                 ELSE mcpClients' = {} /\ mcpTools' = {}]_vars

\* disconnect() is under way on a tool client with both servers connected and
\* tools registered: one client is closed, the close of the other is awaited.
C40_Witness ==
    /\ vault.pc = "close"
    /\ Cardinality(vault.pending) = 1
    /\ mcpClients = Servers
    /\ mcpTools # {}
    /\ \E n \in ToolNames : callToolLookup(n) = "called"

\* updateModel has been called: a `/model <name>` line was submitted.
ModelUpdated ==
    \E i \in DOMAIN submitted, name \in ModelNames :
        submitted[i] = <<"/", "model", " ">> \o name

\* C39: once updateModel has been called, thinkingEnabled is true only if
\* modelSupportsThinking is. A switch to a model that is not thinking-capable
\* clears thinkingEnabled, Tab does not set it again while the model is not
\* capable, and a switch to a thinking-capable model leaves thinkingEnabled as
\* it was.
C39_ThinkingNeedsCapableModel ==
    /\ [](ModelUpdated =>
            /\ state.thinkingEnabled => state.modelSupportsThinking
            /\ state.modelSupportsThinking = isThinkingCapable(model)
            /\ ~state.modelSupportsThinking =>
                  ~handleKey(state, hintLine, waiting, TabKey).s.thinkingEnabled)
    /\ [][\A name \in ModelNames :
             ModelSwitched(name) =>
                 /\ state'.modelSupportsThinking = isThinkingCapable(name)
                 /\ state'.thinkingEnabled =
                        IF isThinkingCapable(name) THEN state.thinkingEnabled ELSE FALSE]_vars

\* The last command switched the model to one that is not thinking-capable:
\* thinkingEnabled, on since the handler was constructed, is off at the empty
\* prompt.
C39_Witness ==
    /\ ModelUpdated
    /\ submitted[Len(submitted)] = <<"/", "model", " ">> \o DefaultModel
    /\ ~isThinkingCapable(model)
    /\ ~state.modelSupportsThinking /\ ~state.thinkingEnabled
    /\ state.buffer = <<>> /\ state.panelVisible = "none"

\* A submit callback is running: a chat turn is awaited or switchVault has not
\* returned.
CallbackRunning == waiting \/ vault.pc # "idle"

\* C36: whenever the commands overlay is active the buffer is not empty and
\* starts with `/`, the handler is not waiting and no submit callback is
\* running; the overlay is entered only by a `/` received with an empty buffer
\* and no overlay.
C36_CommandsOverlayState ==
    /\ [](state.panelVisible = "commands" =>
             /\ state.buffer # <<>> /\ Head(state.buffer) = "/"
             /\ ~waiting
             /\ ~CallbackRunning)
    /\ [][(state'.panelVisible = "commands" /\ state.panelVisible # "commands") =>
             /\ state.buffer = <<>> /\ state.panelVisible = "none"
             /\ state'.buffer = <<"/">>]_vars

\* C37: a vault switch and a chat turn never overlap: while switchVault has not
\* returned no turn is started and no Agent.chat is in flight.
C37_NoTurnDuringSwitch ==
    /\ [](vault.pc # "idle" => InFlight = {})
    /\ [][vault.pc # "idle" => nTurns' = nTurns]_vars
====
